---- MODULE Spec2Model ----
(***************************************************************************)
(* Model of src/ex2/nexus_pipeline.py: NexusManager, the three adapters    *)
(* and the three stages.  Python values are modelled as records of one     *)
(* shape (tag t plus payload fields); printed lines and reports are the    *)
(* real texts the code builds.                                             *)
(***************************************************************************)
EXTENDS Integers, Sequences, FiniteSets, TLC

(* ------------------------------ bounds --------------------------------- *)
MaxPipelines == 3
MaxLen == 4
MaxExtraStages == 2
MaxAgain == 2

(* ------------------------------- state --------------------------------- *)
VARIABLES
    pipelines,  \* NexusManager.pipelines: the registry, in registration order
    call,       \* the last operation and its arguments
    out,        \* the lines the last operation printed
    invoked,    \* registry positions whose process the last process_data invoked, in order
    outcome,    \* how the last process_data ended: "returned", "recovered" or "escaped"
    ret,        \* outcome of the last direct call of a pipeline's or a stage's process
    first       \* an earlier direct call of a pipeline's process, kept for comparison

vars == <<pipelines, call, out, invoked, outcome, ret, first>>

(* --------------------------- Python values ----------------------------- *)
\* t = "dict": keys value (present iff hv, an int n) and unit (present iff hu, text s)
\* t = "str" : text s          t = "list": elements xs
\* t = "int" : integer n       t = "none": None
MkDict(hv, n, hu, u) == [t |-> "dict", s |-> u, xs |-> <<>>, n |-> n, hv |-> hv, hu |-> hu]
MkStr(s) == [t |-> "str", s |-> s, xs |-> <<>>, n |-> 0, hv |-> FALSE, hu |-> FALSE]
MkList(xs) == [t |-> "list", s |-> "", xs |-> xs, n |-> 0, hv |-> FALSE, hu |-> FALSE]
MkInt(n) == [t |-> "int", s |-> "", xs |-> <<>>, n |-> n, hv |-> FALSE, hu |-> FALSE]
NoneVal == [t |-> "none", s |-> "", xs |-> <<>>, n |-> 0, hv |-> FALSE, hu |-> FALSE]

\* a list element: the int n when num, otherwise the text 'x'
Num(n) == [num |-> TRUE, n |-> n]
BadElem == [num |-> FALSE, n |-> 0]

ElemRepr(e) == IF e.num THEN ToString(e.n) ELSE "'x'"

RECURSIVE JoinRepr(_)
JoinRepr(xs) ==
    IF Len(xs) = 0 THEN ""
    ELSE IF Len(xs) = 1 THEN ElemRepr(xs[1])
    ELSE ElemRepr(xs[1]) \o ", " \o JoinRepr(Tail(xs))

DictRepr(d) ==
    LET v == IF d.hv THEN "'value': " \o ToString(d.n) ELSE ""
        u == IF d.hu THEN "'unit': '" \o d.s \o "'" ELSE ""
        sep == IF d.hv /\ d.hu THEN ", " ELSE ""
    IN "{" \o v \o sep \o u \o "}"

\* str(data)
Str(data) ==
    CASE data.t = "dict" -> DictRepr(data)
      [] data.t = "str" -> data.s
      [] data.t = "list" -> "[" \o JoinRepr(data.xs) \o "]"
      [] data.t = "int" -> ToString(data.n)
      [] OTHER -> "None"

\* a local name: v is evaluated once and F is applied to its value
Bind(v, F(_)) == CHOOSE y \in {F(x) : x \in {v}} : TRUE

\* one printed line: the print site k and the text printed
Line(k, text) == [k |-> k, text |-> text]

\* outcome of a call: returned value, or the exception raised; the lines printed
\* and (for a pipeline) the stage calls made, each with the stage and its argument
Return(val, lines) ==
    [ok |-> TRUE, val |-> val, exc |-> "", msg |-> "", out |-> lines, trace |-> <<>>]
Raise(exc, msg, lines) ==
    [ok |-> FALSE, val |-> NoneVal, exc |-> exc, msg |-> msg, out |-> lines, trace |-> <<>>]

(* ------------------------------ stages --------------------------------- *)
InputStage_process(data) ==
    Return(data, <<Line("input", "Input: " \o Str(data))>>)

\* a transform stage that does filter a sequence: it drops what is not a number
TransformStage_process_Filtering(data) ==
    IF data.t = "list"
    THEN Return(MkList(SelectSeq(data.xs, LAMBDA e : e.num)),
                <<Line("transform", "Transform: Aggregated and filtered")>>)
    ELSE IF data.t = "dict"
    THEN Return(data, <<Line("transform", "Transform: Enriched with metadata and validation")>>)
    ELSE IF data.t = "str"
    THEN Return(data, <<Line("transform", "Transform: Parsed and structured data")>>)
    ELSE Return(data, <<>>)

TransformStage_process(data) ==
    CASE data.t = "dict" ->
            Return(data, <<Line("transform", "Transform: Enriched with metadata and validation")>>)
      [] data.t = "str" ->
            Return(data, <<Line("transform", "Transform: Parsed and structured data")>>)
      [] data.t = "list" ->
            Return(data, <<Line("transform", "Transform: Aggregated and filtered")>>)
      [] OTHER -> Return(data, <<>>)

RECURSIVE Sum(_)
Sum(xs) == IF Len(xs) = 0 THEN 0 ELSE xs[1].n + Sum(Tail(xs))

AllNum(xs) == \A i \in 1..Len(xs) : xs[i].num

Abs(n) == IF n < 0 THEN -n ELSE n

\* tenths of |total / count| as format spec .1f rounds it (ties to even)
Tenths(total, count) ==
    LET a == 10 * Abs(total)
        q == a \div count
        r == a % count
    IN IF 2 * r < count THEN q
       ELSE IF 2 * r > count THEN q + 1
       ELSE IF q % 2 = 0 THEN q ELSE q + 1

\* f"{avg:.1f}" for avg = total / count
FormatAvg(total, count) ==
    LET k == Tenths(total, count)
    IN (IF total < 0 THEN "-" ELSE "") \o ToString(k \div 10) \o "." \o ToString(k % 10)

\* the sequence branch without the test "0 < count"
StreamSummary_NoGuard(xs) ==
    LET count == Len(xs)
    IN IF count = 0 THEN Raise("ZeroDivisionError", "division by zero", <<>>)
       ELSE IF AllNum(xs)
       THEN Return(MkStr("Output: Stream summary: " \o ToString(count)
                         \o " readings, avg: "
                         \o FormatAvg(Sum(xs), count) \o "°C"), <<>>)
       ELSE Raise("TypeError",
                  "unsupported operand type(s) for +: 'int' and 'str'", <<>>)

\* the sequence branch of a stage that keeps the readings of the call before
\* and summarises them together with its own
StreamSummary_Keeping(xs) ==
    LET all == IF call.data.t = "list" THEN call.data.xs \o xs ELSE xs
        count == Len(all)
    IN IF 0 < count
       THEN IF AllNum(all)
            THEN Return(MkStr("Output: Stream summary: " \o ToString(count)
                              \o " readings, avg: "
                              \o FormatAvg(Sum(all), count) \o "°C"), <<>>)
            ELSE Raise("TypeError",
                       "unsupported operand type(s) for +: 'int' and 'str'", <<>>)
       ELSE Return(MkStr("Output: Stream summary: 0 readings, avg: 0.0°C"), <<>>)

\* the sequence branch of OutputStage.process
StreamSummary(xs) ==
    LET count == Len(xs)
    IN IF 0 < count
       THEN IF AllNum(xs)
            THEN Return(MkStr("Output: Stream summary: " \o ToString(count)
                              \o " readings, avg: "
                              \o FormatAvg(Sum(xs), count) \o "°C"), <<>>)
            ELSE Raise("TypeError",
                       "unsupported operand type(s) for +: 'int' and 'str'", <<>>)
       ELSE Return(MkStr("Output: Stream summary: 0 readings, avg: 0.0°C"), <<>>)

OutputStage_process(data) ==
    CASE data.t = "dict" ->
            LET val == IF data.hv THEN ToString(data.n) ELSE "None"
                unit == IF data.hu THEN data.s ELSE "C"
            IN Return(MkStr("Output: Processed temperature reading: "
                            \o val \o "°" \o unit \o " (Normal range)"), <<>>)
      [] data.t = "str" ->
            Return(MkStr("Output: User activity logged: 1 actions processed"), <<>>)
      [] data.t = "list" -> StreamSummary(data.xs)
      [] OTHER -> Return(MkStr("Output: Processed " \o Str(data)), <<>>)

StageNames == {"InputStage", "TransformStage", "OutputStage"}

\* stage.process(data), dispatched on the stage's class
Stage_process(stage, data) ==
    CASE stage = "InputStage" -> InputStage_process(data)
      [] stage = "TransformStage" -> TransformStage_process(data)
      [] OTHER -> OutputStage_process(data)

(* ----------------------------- pipelines ------------------------------- *)
AdapterKinds == {"JSONAdapter", "CSVAdapter", "StreamAdapter"}

\* JSONAdapter(pipeline_id), CSVAdapter(pipeline_id), StreamAdapter(pipeline_id)
Adapter_init(kind, pipeline_id) ==
    [kind |-> kind, pipeline_id |-> pipeline_id,
     stages |-> <<"InputStage", "TransformStage", "OutputStage">>]

\* a loop that hands every stage the pipeline's own argument
ProcessingPipeline_process_NoChain(stages, data) ==
    LET after[i \in 0..Len(stages)] ==
            IF i = 0 THEN Return(data, <<>>)
            ELSE Bind(after[i - 1], LAMBDA prev :
                 IF ~prev.ok THEN prev
                 ELSE Bind(Stage_process(stages[i], data), LAMBDA r :
                      [r EXCEPT !.out = prev.out \o r.out,
                                !.trace = Append(prev.trace,
                                                 [stage |-> stages[i], arg |-> data])]))
    IN after[Len(stages)]

\* ProcessingPipeline.process: after[i] is the state of the loop once i stages
\* have run (the value in data, the lines printed, the stage calls made)
ProcessingPipeline_process(stages, data) ==
    LET after[i \in 0..Len(stages)] ==
            IF i = 0 THEN Return(data, <<>>)
            ELSE Bind(after[i - 1], LAMBDA prev :
                 IF ~prev.ok THEN prev
                 ELSE Bind(Stage_process(stages[i], prev.val), LAMBDA r :
                      [r EXCEPT !.out = prev.out \o r.out,
                                !.trace = Append(prev.trace,
                                                 [stage |-> stages[i], arg |-> prev.val])]))
    IN after[Len(stages)]

Banner(kind) ==
    CASE kind = "JSONAdapter" -> "Processing JSON data through pipeline..."
      [] kind = "CSVAdapter" -> "Processing CSV data through pipeline..."
      [] OTHER -> "Processing Stream data through pipeline..."

\* JSONAdapter.process, CSVAdapter.process, StreamAdapter.process
Adapter_process(p, data) ==
    Bind(ProcessingPipeline_process(p.stages, data), LAMBDA r :
         [r EXCEPT !.out = <<Line("banner", Banner(p.kind))>> \o r.out])

(* ------------------------------ manager -------------------------------- *)
\* the optional pipeline_id argument: None, or a text
NoId == [none |-> TRUE, s |-> ""]
Id(s) == [none |-> FALSE, s |-> s]

\* truth value of the argument in "if pipeline_id:"
Truthy(pipeline_id) == ~pipeline_id.none /\ pipeline_id.s # ""

\* positions, in registration order, of the pipelines with this id
RECURSIVE Matching(_, _, _)
Matching(ps, i, s) ==
    IF i > Len(ps) THEN <<>>
    ELSE (IF ps[i].pipeline_id = s THEN <<i>> ELSE <<>>) \o Matching(ps, i + 1, s)

\* the loop "for pipeline in target_pipelines" from position k on;
\* targets holds registry positions
RECURSIVE RunTargets(_, _, _, _)
RunTargets(ps, targets, k, data) ==
    IF k > Len(targets)
    THEN [exc |-> "", msg |-> "", out |-> <<>>, invoked |-> <<>>]
    ELSE Bind(Adapter_process(ps[targets[k]], data), LAMBDA r :
         IF ~r.ok
         THEN [exc |-> r.exc, msg |-> r.msg, out |-> r.out, invoked |-> <<targets[k]>>]
         ELSE Bind(RunTargets(ps, targets, k + 1, data), LAMBDA rest :
              [rest EXCEPT !.out = r.out \o <<Line("report", Str(r.val))>> \o rest.out,
                           !.invoked = <<targets[k]>> \o rest.invoked]))

\* the body of the try block
TryBody(ps, data, pipeline_id) ==
    IF Truthy(pipeline_id)
    THEN Bind(Matching(ps, 1, pipeline_id.s), LAMBDA target_pipelines :
         IF target_pipelines = <<>>
         THEN [exc |-> "ValueError", msg |-> "That pipeline does not exist.",
               out |-> <<>>, invoked |-> <<>>]
         ELSE RunTargets(ps, target_pipelines, 1, data))
    ELSE Bind([i \in 1..Len(ps) |-> i], LAMBDA target_pipelines :
         RunTargets(ps, target_pipelines, 1, data))

\* a handler that catches ValueError only
IsException_ValueErrorOnly(exc) == exc = "ValueError"

\* the classes "except Exception" catches, among those the code can raise
IsException(exc) == exc \in {"ValueError", "TypeError"}

Narrative(msg) ==
    << Line("error", "Error detected: " \o msg),
       Line("recovery_initiated", "Recovery initiated: Switching to backup processor"),
       Line("recovery_successful",
            "Recovery successful: Pipeline restored, processing resumed") >>

\* a manager that, after the narrative, runs the first registered pipeline as backup
NexusManager_process_data_Backup(ps, data, pipeline_id) ==
    Bind(TryBody(ps, data, pipeline_id), LAMBDA b :
         IF b.exc = ""
         THEN [out |-> b.out, invoked |-> b.invoked, escaped |-> FALSE, caught |-> FALSE]
         ELSE IF Len(ps) = 0
         THEN [out |-> b.out \o Narrative(b.msg), invoked |-> b.invoked,
               escaped |-> FALSE, caught |-> TRUE]
         ELSE Bind(Adapter_process(ps[1], data), LAMBDA sub :
              [out |-> b.out \o Narrative(b.msg) \o sub.out,
               invoked |-> b.invoked \o <<1>>,
               escaped |-> FALSE, caught |-> TRUE]))

NexusManager_process_data(ps, data, pipeline_id) ==
    Bind(TryBody(ps, data, pipeline_id), LAMBDA b :
         IF b.exc = ""
         THEN [out |-> b.out, invoked |-> b.invoked, escaped |-> FALSE, caught |-> FALSE]
         ELSE IF IsException(b.exc)
         THEN [out |-> b.out \o Narrative(b.msg), invoked |-> b.invoked,
               escaped |-> FALSE, caught |-> TRUE]
         ELSE [out |-> b.out, invoked |-> b.invoked, escaped |-> TRUE, caught |-> FALSE])

\* self.pipelines after add_pipeline(pipeline)
NexusManager_add_pipeline(ps, pipeline) == Append(ps, pipeline)

\* a process_data whose target_pipelines is the registry itself from the start, so
\* that the pipelines found for the id are appended to the registry
NexusManager_pipelines_after_Aliased(ps, pipeline_id) ==
    IF Truthy(pipeline_id)
    THEN ps \o [k \in 1..Len(Matching(ps, 1, pipeline_id.s)) |->
                   ps[Matching(ps, 1, pipeline_id.s)[k]]]
    ELSE ps

\* self.pipelines after process_data: with an id, target_pipelines is a list of
\* its own and only that list is appended to; without one it is the registry
\* itself, which is then only read; no pipeline's field is assigned
NexusManager_pipelines_after(ps, pipeline_id) == ps

(* ------------------------------- inputs -------------------------------- *)
\* the adapters the manager is given: two share an id, one has the empty id
Adapters ==
    { Adapter_init("JSONAdapter", "pipeline_json_01"),
      Adapter_init("StreamAdapter", "pipeline_json_01"),
      Adapter_init("CSVAdapter", "pipeline_csv_01"),
      Adapter_init("CSVAdapter", "") }

IdArgs == {NoId, Id(""), Id("pipeline_json_01"), Id("pipeline_csv_01"), Id("error")}

Elems == {Num(-1), Num(0), Num(2), Num(3), BadElem}

Lists(n) == UNION {[1..k -> Elems] : k \in 0..n}

Dicts == {MkDict(TRUE, 23, TRUE, "C"), MkDict(TRUE, 23, TRUE, "F"),
          MkDict(TRUE, 23, FALSE, ""), MkDict(FALSE, 0, TRUE, "C"),
          MkDict(FALSE, 0, FALSE, "")}

Texts == {MkStr(""), MkStr("user,action,timestamp")}

Others == {MkInt(42), MkInt(-7), NoneVal}

\* the values the stages are called with
StageData == Dicts \cup Texts \cup {MkList(xs) : xs \in Lists(MaxLen)} \cup Others

\* the values the manager and the pipelines are called with
ManagerData ==
    { MkDict(TRUE, 23, TRUE, "C"), MkDict(FALSE, 0, FALSE, ""),
      MkStr("user,action,timestamp"),
      MkList(<<Num(2), Num(3)>>), MkList(<<>>), MkList(<<Num(2), BadElem>>),
      MkInt(42) }

\* the Records the shipped adapters are called with, again and again
RecordData ==
    { MkDict(TRUE, 23, TRUE, "C"), MkStr("user,action,timestamp"),
      MkList(<<Num(2), Num(3)>>) }

\* a Record: a mapping, a text, or a sequence of numbers
IsRecord(data) ==
    \/ data.t \in {"dict", "str"}
    \/ data.t = "list" /\ AllNum(data.xs)

NoCall == [op |-> "init", data |-> NoneVal, pipeline_id |-> NoId, idx |-> 0, stage |-> ""]
NoRet == Return(NoneVal, <<>>)
NoFirst == [set |-> FALSE, kind |-> "", stages |-> <<>>, data |-> NoneVal, ret |-> NoRet]

Init ==
    /\ pipelines = <<>>
    /\ call = NoCall
    /\ out = <<>>
    /\ invoked = <<>>
    /\ outcome = "returned"
    /\ ret = NoRet
    /\ first = NoFirst

(* ------------------------------ actions -------------------------------- *)
\* manager.add_pipeline(Adapter(pipeline_id))
add_pipeline(kind, pipeline_id) ==
    /\ Len(pipelines) < MaxPipelines
    /\ pipelines' = NexusManager_add_pipeline(pipelines, Adapter_init(kind, pipeline_id))
    /\ call' = [NoCall EXCEPT !.op = "add_pipeline", !.pipeline_id = Id(pipeline_id)]
    /\ out' = <<>>
    /\ UNCHANGED <<invoked, outcome, ret, first>>

\* manager.process_data(data, pipeline_id)
process_data(data, pipeline_id) ==
    \E r \in {NexusManager_process_data(pipelines, data, pipeline_id)} :
       /\ call' = [NoCall EXCEPT !.op = "process_data", !.data = data,
                                 !.pipeline_id = pipeline_id]
       /\ out' = r.out
       /\ invoked' = r.invoked
       /\ outcome' = IF r.escaped THEN "escaped"
                      ELSE IF r.caught THEN "recovered" ELSE "returned"
       /\ pipelines' = NexusManager_pipelines_after(pipelines, pipeline_id)
       /\ UNCHANGED <<ret, first>>

\* pipelines[i].add_stage(stage)
add_stage(i, stage) ==
    /\ Len(pipelines[i].stages) < 3 + MaxExtraStages
    /\ pipelines' = [pipelines EXCEPT ![i].stages = Append(@, stage)]
    /\ call' = [NoCall EXCEPT !.op = "add_stage", !.idx = i, !.stage = stage]
    /\ out' = <<>>
    /\ UNCHANGED <<invoked, outcome, ret, first>>

\* pipelines[i].process(data), called directly; keep says whether this call is
\* the one kept in first
process(i, data, keep) ==
    \E r \in {Adapter_process(pipelines[i], data)} :
       /\ keep => ~first.set
       /\ call' = [NoCall EXCEPT !.op = "process", !.data = data, !.idx = i]
       /\ out' = r.out
       /\ ret' = r
       /\ first' = IF keep
                   THEN [set |-> TRUE, kind |-> pipelines[i].kind,
                         stages |-> pipelines[i].stages, data |-> data, ret |-> r]
                   ELSE first
       /\ UNCHANGED <<pipelines, invoked, outcome>>

\* stage.process(call.data), called directly on a stage of its own
stage_process(stage) ==
    \E r \in {Stage_process(stage, call.data)} :
       /\ call.op = "input"
       /\ call' = [call EXCEPT !.op = "stage_process", !.stage = stage]
       /\ out' = r.out
       /\ ret' = r
       /\ UNCHANGED <<pipelines, invoked, outcome, first>>

(* --------------------------- specifications ---------------------------- *)
\* the manager: registration and dispatch
Next ==
    \/ \E p \in Adapters : add_pipeline(p.kind, p.pipeline_id)
    \/ \E data \in ManagerData, id \in IdArgs : process_data(data, id)

Spec == Init /\ [][Next]_vars

\* one pipeline: construction, extra stages and direct calls
NextPipe ==
    \/ \E kind \in AdapterKinds : Len(pipelines) = 0 /\ add_pipeline(kind, "pipeline_json_01")
    \/ \E stage \in StageNames : Len(pipelines) > 0 /\ add_stage(1, stage)
    \/ \E data \in ManagerData : Len(pipelines) > 0 /\ process(1, data, FALSE)

SpecPipe == Init /\ [][NextPipe]_vars

\* the shipped adapters called again and again, directly and through the manager
NextAgain ==
    \/ \E kind \in AdapterKinds :
            Len(pipelines) < MaxAgain /\ add_pipeline(kind, "pipeline_json_01")
    \/ \E i \in 1..Len(pipelines), data \in RecordData, keep \in BOOLEAN :
            process(i, data, keep)
    \/ \E data \in RecordData : process_data(data, NoId)

SpecAgain == Init /\ [][NextAgain]_vars

\* the stages, each called on its own with one input
InitStage ==
    /\ Init!1 /\ Init!3 /\ Init!4 /\ Init!5 /\ Init!6 /\ Init!7
    /\ \E data \in StageData : call = [NoCall EXCEPT !.op = "input", !.data = data]

NextStage == \E stage \in StageNames : stage_process(stage)

SpecStage == InitStage /\ [][NextStage]_vars

(* ------------------------------- claims -------------------------------- *)
Kinds(ls) == [i \in 1..Len(ls) |-> ls[i].k]

NarrativeKinds == <<"error", "recovery_initiated", "recovery_successful">>

\* the last n entries of a sequence
LastN(ls, n) == SubSeq(ls, Len(ls) - n + 1, Len(ls))

\* C1: process_data never lets an exception escape: every call ends either
\* after the last target's report or after the recovery narrative.
C1_NoExceptionEscapes ==
    call.op = "process_data" =>
        /\ outcome \in {"returned", "recovered"}
        /\ outcome = "returned" =>
              /\ Len(out) = 0 <=> Len(invoked) = 0
              /\ Len(out) > 0 => out[Len(out)].k = "report"
        /\ outcome = "recovered" =>
              /\ Len(out) >= 3
              /\ Kinds(LastN(out, 3)) = NarrativeKinds

\* a stage failed in the last dispatch and the manager absorbed it
C1_Witness ==
    /\ call.op = "process_data"
    /\ outcome = "recovered"
    /\ Len(invoked) > 0
    /\ Len(pipelines) = MaxPipelines

\* C2: a pipeline_id text that equals no registered id, the empty text
\* included, yields exactly the three-line narrative and invokes no pipeline.
C2_UnknownIdNarrative ==
    ( /\ call.op = "process_data"
      /\ ~call.pipeline_id.none
      /\ Matching(pipelines, 1, call.pipeline_id.s) = <<>> ) =>
        /\ out = Narrative("That pipeline does not exist.")
        /\ invoked = <<>>

\* C3: with a pipeline_id that equals a registered id, the pipelines invoked
\* are exactly those with that id, each once, in registration order.
C3_KnownIdInvokesMatching ==
    ( /\ call.op = "process_data"
      /\ ~call.pipeline_id.none
      /\ Matching(pipelines, 1, call.pipeline_id.s) # <<>> ) =>
        invoked = Matching(pipelines, 1, call.pipeline_id.s)

\* C4: with no pipeline_id every registered pipeline is invoked exactly
\* once, in registration order, for any data value.
C4_BroadcastInvokesAll ==
    (call.op = "process_data" /\ call.pipeline_id.none) =>
        invoked = [i \in 1..Len(pipelines) |-> i]

\* C5: in a broadcast a failure in one target does not keep the pipelines
\* registered after it from being invoked in the same call.
C5_BroadcastContinuesAfterFailure ==
    ( /\ call.op = "process_data"
      /\ call.pipeline_id.none
      /\ \E k \in 1..Len(out) : out[k].k = "error" ) =>
        \A i \in 1..Len(pipelines) : \E k \in 1..Len(invoked) : invoked[k] = i

\* C6: an exception raised during process_data is caught exactly once: one
\* narrative of three lines in order, and nothing happens after it in the call.
C6_OneNarrativeThenNothing ==
    call.op = "process_data" =>
        LET b == TryBody(pipelines, call.data, call.pipeline_id)
            n == Len(out)
            narr == {i \in 1..n : out[i].k \in {"error", "recovery_initiated",
                                                 "recovery_successful"}}
            banners == {i \in 1..n : out[i].k = "banner"}
            reports == {i \in 1..n : out[i].k = "report"}
        IN /\ b.exc # "" =>
                /\ n >= 3
                /\ narr = {n - 2, n - 1, n}
                /\ LastN(out, 3) = Narrative(b.msg)
                /\ Cardinality(banners) = Len(invoked)
                /\ Len(invoked) > 0 => Cardinality(reports) = Len(invoked) - 1
                /\ Len(invoked) = 0 => reports = {}
           /\ b.exc = "" => narr = {}

\* a broadcast over several pipelines in which the first target's stage failed
C6_Witness ==
    /\ call.op = "process_data"
    /\ call.pipeline_id.none
    /\ outcome = "recovered"
    /\ Len(pipelines) >= 2
    /\ Len(invoked) = 1
    /\ Len(out) = 6

ShippedStages == <<"InputStage", "TransformStage", "OutputStage">>

\* C7: an adapter's process prints its banner, then runs its stages in the
\* order they were added, each on the value the one before returned, and
\* returns what the last one returned.
C7_BannerThenChain ==
    call.op = "process" =>
        LET p == pipelines[call.idx]
            tr == ret.trace
            res(j) == Stage_process(tr[j].stage, tr[j].arg)
            printed[j \in 0..Len(tr)] ==
                IF j = 0 THEN <<>> ELSE printed[j - 1] \o res(j).out
        IN /\ Len(out) >= 1
           /\ out[1] = Line("banner", Banner(p.kind))
           /\ \A j \in 2..Len(out) : out[j].k # "banner"
           /\ Len(tr) >= 1 /\ Len(tr) <= Len(p.stages)
           /\ \A j \in 1..Len(tr) : tr[j].stage = p.stages[j]
           /\ tr[1].arg = call.data
           /\ \A j \in 2..Len(tr) : res(j - 1).ok /\ tr[j].arg = res(j - 1).val
           /\ Tail(out) = printed[Len(tr)]
           /\ ret.ok => Len(tr) = Len(p.stages) /\ ret.val = res(Len(tr)).val
           /\ ~ret.ok => ~res(Len(tr)).ok
           /\ p.stages = ShippedStages =>
                /\ Kinds(out) = IF call.data.t \in {"dict", "str", "list"}
                                THEN <<"banner", "input", "transform">>
                                ELSE <<"banner", "input">>
                /\ ret.ok = OutputStage_process(call.data).ok
                /\ ret.val = OutputStage_process(call.data).val

\* a pipeline with a stage added after its output stage has processed a mapping
C7_Witness ==
    /\ call.op = "process"
    /\ call.data.t = "dict"
    /\ Len(pipelines[call.idx].stages) > 3
    /\ pipelines[call.idx].stages[4] = "OutputStage"
    /\ ret.ok

\* C8: OutputStage.process never raises, whatever it receives.
C8_OutputStageNeverRaises ==
    (call.op = "stage_process" /\ call.stage = "OutputStage") =>
        /\ ret.ok
        /\ call.data.t \notin {"dict", "str", "list"} =>
              ret.val = MkStr("Output: Processed " \o Str(call.data))

\* C9: for a sequence of numbers OutputStage.process reports the length as
\* count and the arithmetic mean to one decimal; for the empty sequence it
\* reports count 0 and mean 0 and does not raise.
C9_CountAndMean ==
    ( /\ call.op = "stage_process"
      /\ call.stage = "OutputStage"
      /\ call.data.t = "list"
      /\ AllNum(call.data.xs) ) =>
        LET count == Len(call.data.xs)
            total == Sum(call.data.xs)
            Shown(sign, k) ==
                MkStr("Output: Stream summary: " \o ToString(count) \o " readings, avg: "
                      \o sign \o ToString(k \div 10) \o "." \o ToString(k % 10) \o "°C")
        IN /\ ret.ok
           /\ count = 0 => ret.val = Shown("", 0)
           /\ count > 0 =>
                \E k \in 0..(10 * Abs(total) + 1) :
                    /\ 2 * Abs(10 * Abs(total) - k * count) <= count
                    /\ ret.val = Shown(IF total < 0 THEN "-" ELSE "", k)

\* the output stage has reported on the empty sequence
C9_Witness ==
    /\ call.op = "stage_process"
    /\ call.stage = "OutputStage"
    /\ call.data = MkList(<<>>)
    /\ ret.ok
    /\ ret.val.s = "Output: Stream summary: 0 readings, avg: 0.0°C"

\* C10: a shipped adapter returns a non-empty report text for every Record,
\* and the same report when called again with an equal Record, whatever
\* calls were made in between.
C10_SameReportAgain ==
    ( /\ call.op = "process"
      /\ IsRecord(call.data)
      /\ pipelines[call.idx].stages = ShippedStages ) =>
        /\ ret.ok
        /\ ret.val.t = "str"
        /\ ret.val.s # ""
        /\ ( /\ first.set
             /\ first.kind = pipelines[call.idx].kind
             /\ first.stages = ShippedStages
             /\ first.data = call.data ) => ret.val = first.ret.val

\* a kept call and a later call of another registered adapter of the same class
\* with an equal Record
C10_Witness ==
    /\ call.op = "process"
    /\ first.set
    /\ call.idx > 1
    /\ first.kind = pipelines[call.idx].kind
    /\ first.data = call.data
    /\ call.data.t = "list"
    /\ ret.ok

\* C11: InputStage.process and TransformStage.process return the value they
\* received and never raise; InputStage prints one line, TransformStage one
\* line for a mapping, a text or a sequence and none for any other value.
C11_StagesPassThrough ==
    (call.op = "stage_process" /\ call.stage \in {"InputStage", "TransformStage"}) =>
        /\ ret.ok
        /\ ret.val = call.data
        /\ call.stage = "InputStage" =>
              out = <<Line("input", "Input: " \o Str(call.data))>>
        /\ call.stage = "TransformStage" =>
              IF call.data.t \in {"dict", "str", "list"}
              THEN Len(out) = 1 /\ out[1].k = "transform"
              ELSE out = <<>>

\* the transform stage has passed on a sequence holding something that is no number
C11_Witness ==
    /\ call.op = "stage_process"
    /\ call.stage = "TransformStage"
    /\ call.data.t = "list"
    /\ ~AllNum(call.data.xs)
    /\ ret.val = call.data
    /\ Len(out) = 1

\* C12: the registry only grows and dispatch never changes it: add_pipeline
\* puts the pipeline at the end and keeps the entries before it in order,
\* also when its id is already present; process_data, successful or ending in
\* the narrative, leaves the registry, every pipeline_id and every stage
\* sequence as they were.
C12_RegistryOnlyGrows ==
    [][ /\ call'.op = "add_pipeline" =>
              /\ Len(pipelines') = Len(pipelines) + 1
              /\ SubSeq(pipelines', 1, Len(pipelines)) = pipelines
              /\ pipelines'[Len(pipelines')].pipeline_id = call'.pipeline_id.s
              /\ pipelines'[Len(pipelines')].stages = ShippedStages
        /\ call'.op = "process_data" => pipelines' = pipelines ]_vars

\* a dispatch by an id that two registered pipelines share has ended in the narrative
C12_Witness ==
    /\ call.op = "process_data"
    /\ ~call.pipeline_id.none
    /\ Len(Matching(pipelines, 1, call.pipeline_id.s)) >= 2
    /\ outcome = "recovered"

====
